---------------------------- MODULE Spec2Model ----------------------------
(***************************************************************************)
(* Model of the realtime Socket of nakama-swift: the correlation of        *)
(* requests (Socket.send) with inbound frames (Socket.onReceivedData)      *)
(* through the collation counter and the collatedPromises dictionary, and  *)
(* the wiring of the socket adapter's callbacks (Socket.init).             *)
(***************************************************************************)
EXTENDS Integers, Sequences, FiniteSets, TLC

(***************************************************************************)
(* Bounds of the model.                                                    *)
(***************************************************************************)
\* requests one caller issues one after the other (Spec)
MaxCalls == 1

\* tasks that call Socket.send concurrently (ConcurrentSpec)
MaxTasks == 2

\* handler properties that hold a closure at the same time (HandlerSpec)
MaxRegistered == 1

\* width of the collation counter in the model; Int has 64 bits
CounterBits == 8

\* frames the adapter reads from the connection (OrderSpec)
MaxArrivals == 3

\* parameters of one operation of the API description (GeneratorSpec)
MaxParams == 1

\* applications of generateBodyDefinitionFromSchema to one schema
MaxRuns == 2

VARIABLES
    collationCounter,   \* ManagedAtomic<Int>: last value handed out
    collatedPromises,   \* [String:Any]: cid -> promise (index into calls)
    calls,              \* one record per Socket.send call and its promise
    connState,          \* connection state of the socket adapter
    crashed,            \* the process trapped (failed forced cast / race)
    out,                \* what the last step logged, called and sent
    handlers,           \* the handler properties: closure held, or "nil"
    inbound,            \* frames the adapter has read and not yet handed over
    gen                 \* the binding generator: the schema it works on

vars ==
    <<collationCounter, collatedPromises, calls, connState, crashed, out,
      handlers, inbound, gen>>

(***************************************************************************)
(* Envelope payload variants (the `message` oneof of the envelope).        *)
(***************************************************************************)
\* cases of the switch for frames with a collation id, before `default`
ForceCastKinds ==
    {"rpc", "channel", "channelMessageAck", "match", "matchmakerTicket",
     "status", "party", "partyMatchmakerTicket"}

\* cases of the switch for frames without a collation id, before `default`
PushKinds ==
    {"error", "channelMessage", "channelPresenceEvent", "matchData",
     "matchPresenceEvent", "matchmakerMatched", "notifications",
     "statusPresenceEvent", "streamData", "streamPresenceEvent", "party",
     "partyJoinRequest", "partyData", "partyPresenceEvent",
     "partyMatchmakerTicket", "partyClose", "partyLeader"}

\* "none" is an envelope whose message is not set; "channelJoin" stands for
\* the request-side variants, which neither switch names
MessageKinds == ForceCastKinds \cup PushKinds \cup {"none", "channelJoin"}

\* a table that sends an unsolicited error to the notifications handler
PushHandler_errorAsNotification(kind) ==
    CASE kind = "error"                 -> "onNotifications"
      [] kind = "channelMessage"        -> "onChannelMessage"
      [] kind = "channelPresenceEvent"  -> "onChannelPresence"
      [] kind = "matchData"             -> "onMatchData"
      [] kind = "matchPresenceEvent"    -> "onMatchPresence"
      [] kind = "matchmakerMatched"     -> "onMatchmakerMatched"
      [] kind = "notifications"         -> "onNotifications"
      [] kind = "statusPresenceEvent"   -> "onStatusPresence"
      [] kind = "streamData"            -> "onStreamData"
      [] kind = "streamPresenceEvent"   -> "onStreamPresence"
      [] kind = "party"                 -> "onPartyReceived"
      [] kind = "partyJoinRequest"      -> "onPartyJoin"
      [] kind = "partyData"             -> "onPartyData"
      [] kind = "partyPresenceEvent"    -> "onPartyPresence"
      [] kind = "partyMatchmakerTicket" -> "onPartyMatchmakerTicket"
      [] kind = "partyClose"            -> "onPartyClosed"
      [] kind = "partyLeader"           -> "onPartyLeader"
      [] OTHER                          -> "none"

\* the handler property each unsolicited variant is dispatched to
PushHandler(kind) ==
    CASE kind = "error"                 -> "onError"
      [] kind = "channelMessage"        -> "onChannelMessage"
      [] kind = "channelPresenceEvent"  -> "onChannelPresence"
      [] kind = "matchData"             -> "onMatchData"
      [] kind = "matchPresenceEvent"    -> "onMatchPresence"
      [] kind = "matchmakerMatched"     -> "onMatchmakerMatched"
      [] kind = "notifications"         -> "onNotifications"
      [] kind = "statusPresenceEvent"   -> "onStatusPresence"
      [] kind = "streamData"            -> "onStreamData"
      [] kind = "streamPresenceEvent"   -> "onStreamPresence"
      [] kind = "party"                 -> "onPartyReceived"
      [] kind = "partyJoinRequest"      -> "onPartyJoin"
      [] kind = "partyData"             -> "onPartyData"
      [] kind = "partyPresenceEvent"    -> "onPartyPresence"
      [] kind = "partyMatchmakerTicket" -> "onPartyMatchmakerTicket"
      [] kind = "partyClose"            -> "onPartyClosed"
      [] kind = "partyLeader"           -> "onPartyLeader"
      [] OTHER                          -> "none"

\* bodies of payloads (for the error variant: its code and message)
Bodies == {"b1", "b2"}

(***************************************************************************)
(* The request operations of the public surface and the type T each one    *)
(* instantiates Socket.send<T> with.  A type is named after the payload    *)
(* variant that carries it; "empty" is Google_Protobuf_Empty.              *)
(***************************************************************************)
RequestOps ==
    {"joinChat", "leaveChat", "removeChatMessage", "writeChatMessage",
     "updateChatMessage", "createMatch", "joinMatch", "joinMatchToken",
     "leaveMatch", "addMatchmaker", "removeMatchmaker", "rpc", "followUsers",
     "unfollowUsers", "updateStatus", "createParty", "joinParty",
     "leaveParty", "closeParty", "sendPartyData", "acceptPartyMember",
     "removePartyMember", "addMatchmakerParty", "removeMatchmakerParty",
     "listPartyJoinRequests", "promotePartyMember"}

ResponseType(op) ==
    CASE op = "joinChat" -> "channel"
      [] op \in {"removeChatMessage", "writeChatMessage", "updateChatMessage"}
            -> "channelMessageAck"
      [] op \in {"createMatch", "joinMatch", "joinMatchToken"} -> "match"
      [] op = "addMatchmaker" -> "matchmakerTicket"
      [] op = "rpc" -> "rpc"
      [] op = "followUsers" -> "status"
      [] op = "createParty" -> "party"
      [] op = "addMatchmakerParty" -> "partyMatchmakerTicket"
      [] op = "listPartyJoinRequests" -> "partyJoinRequest"
      [] OTHER -> "empty"

PromiseTypes == {ResponseType(op) : op \in RequestOps}

(***************************************************************************)
(* String(Int): the decimal text of the counter, the wire-level id.        *)
(***************************************************************************)
Digit(d) ==
    CASE d = 0 -> "0" [] d = 1 -> "1" [] d = 2 -> "2" [] d = 3 -> "3"
      [] d = 4 -> "4" [] d = 5 -> "5" [] d = 6 -> "6" [] d = 7 -> "7"
      [] d = 8 -> "8" [] d = 9 -> "9"

RECURSIVE Digits(_)
Digits(n) == IF n < 10 THEN <<Digit(n)>>
             ELSE Digits(n \div 10) \o <<Digit(n % 10)>>

IntToString(n) == IF n < 0 THEN <<"-">> \o Digits(-n) ELSE Digits(n)

\* the empty string: the cid of an unsolicited frame
EmptyCid == << >>

(***************************************************************************)
(* The atomic counter.                                                     *)
(***************************************************************************)
\* the load without the increment
wrappingIncrementThenLoad_stale(c) == c

CounterMax == 2^(CounterBits - 1) - 1

CounterMin == -(2^(CounterBits - 1))

wrappingIncrementThenLoad(c) == IF c = CounterMax THEN CounterMin ELSE c + 1

(***************************************************************************)
(* Promises.  result.state is "pending", "succeeded" or "failed".          *)
(***************************************************************************)
Pending == [state |-> "pending", kind |-> "none", body |-> "none"]

Succeeded(kind, body) == [state |-> "succeeded", kind |-> kind, body |-> body]

\* promise.fail(NakamaRealtimeError(error: error))
RemoteError(body) == [state |-> "failed", kind |-> "RemoteError", body |-> body]

\* a promise that takes every completion, the last one winning
Complete_lastWins(result, new) == new

\* EventLoopPromise completes once; a later succeed/fail changes nothing
Complete(result, new) == IF result.state = "pending" THEN new ELSE result

\* `promise as? EventLoopPromise<U>` / `as! EventLoopPromise<U>` on a
\* promise made by send<T>: generic types are invariant, the cast succeeds
\* only for U = T.  No send<T: Message> instantiates T = Any.
CastSucceeds(T, U) == T = U

(***************************************************************************)
(* The handler properties (onConnect ... onPartyLeader).                   *)
(***************************************************************************)
Slots ==
    {"onConnect", "onDisconnect", "onError"}
        \cup {PushHandler(kind) : kind \in PushKinds}

\* what a handler property can hold: no closure, or one of two closures
HandlerValues == {"nil", "h1", "h2"}

(***************************************************************************)
(* Outputs of a step: the logger.error call, the handler property it       *)
(* called through (`self.onX?(arg)`) with the closure that ran and the     *)
(* argument (a tuple: empty for a handler without parameter), and the      *)
(* cid of each envelope it handed to socketAdapter.send.                   *)
(***************************************************************************)
NoOut ==
    [log |-> "none", invoked |-> "none", handler |-> "nil", arg |-> << >>,
     sent |-> << >>]

Logged(msg) == [NoOut EXCEPT !.log = msg]

\* self.onX?(arg): runs the closure the property holds, if any
Invoked(slot, arg) ==
    [NoOut EXCEPT !.invoked = slot, !.handler = handlers[slot], !.arg = arg]

\* socketAdapter.send(data:) of one envelope
Sent(cid) == [NoOut EXCEPT !.sent = <<cid>>]

(***************************************************************************)
(* The adapter's side of reception: the frames it has read from the        *)
(* connection, numbered in the order they came, waiting for the call of    *)
(* onReceiveData, and the number of the frame last handed over.            *)
(***************************************************************************)
NoneInbound == [queue |-> << >>, arrived |-> 0, handled |-> 0]

(***************************************************************************)
(* The binding generator (main.go).  Strings that the code takes apart or  *)
(* puts together are tuples of tokens, "" is the empty tuple.              *)
(***************************************************************************)
\* strings.TrimPrefix(s, prefix)
TrimPrefix(s, prefix) ==
    IF Len(s) >= Len(prefix) /\ SubSeq(s, 1, Len(prefix)) = prefix
    THEN SubSeq(s, Len(prefix) + 1, Len(s))
    ELSE s

\* the keys of Schema.Paths in the descriptions considered
PathKeys == {"/v2/a", "/v2/b"}

\* the second command-line argument: absent, or a namespace
Namespaces == {<< >>, <<"N">>}

NoProperties == [key \in {} |-> [Type |-> "", Description |-> ""]]

\* inline schemas: ObjectSchema.Properties
PropertyMaps ==
    { NoProperties,
      [key \in {"a"} |-> [Type |-> "string", Description |-> "da"]],
      [key \in {"a", "b"} |-> [Type |-> "integer", Description |-> "db"]] }

\* a body parameter with an inline schema and no $ref
Inline(properties) ==
    [Name |-> "body", In |-> "body",
     Schema |-> [Ref |-> << >>, Properties |-> properties,
                 Description |-> "doc"]]

\* a body parameter that refers to a definition
Referenced ==
    [Name |-> "body", In |-> "body",
     Schema |-> [Ref |-> <<"#/definitions/", "Existing">>,
                 Properties |-> NoProperties, Description |-> ""]]

\* a path parameter
PathParameter ==
    [Name |-> "id", In |-> "path",
     Schema |-> [Ref |-> << >>, Properties |-> NoProperties,
                 Description |-> ""]]

\* a query parameter that happens to be called body
QueryParameter ==
    [Name |-> "body", In |-> "query",
     Schema |-> [Ref |-> << >>, Properties |-> NoProperties,
                 Description |-> ""]]

ParamShapes ==
    {Inline(properties) : properties \in PropertyMaps}
        \cup {Referenced, PathParameter, QueryParameter}

ParameterLists == UNION {[1..n -> ParamShapes] : n \in 0..MaxParams}

\* an operation under a method other than put
GetOperation ==
    [OperationId |-> <<"N", "_", "G">>,
     Parameters |-> <<Inline(NoProperties)>>]

\* the values of one key of Schema.Paths: method -> operation
Methods(operationIds) ==
    { [method \in methods |->
          IF method = "put"
          THEN [OperationId |-> id, Parameters |-> parameters]
          ELSE GetOperation] :
        methods \in SUBSET {"put", "get"},
        id \in operationIds,
        parameters \in ParameterLists }

\* Schema.Definitions after json.Unmarshal: nil when the description has
\* no "definitions", else a map
NilDefinitions == [isNil |-> TRUE, entries |-> << >>]

ExistingDefinition ==
    [Properties |-> [key \in {"x"} |-> [Type |-> "string",
                                        Description |-> "dx"]],
     Description |-> "existing"]

DefinitionMaps ==
    { NilDefinitions,
      [isNil |-> FALSE, entries |-> << >>],
      [isNil |-> FALSE,
       entries |-> [name \in {<<"Existing">>} |-> ExistingDefinition]] }

\* the schema as main has it when it calls generateBodyDefinitionFromSchema
Schemas ==
    { [Namespace |-> namespace,
       Paths |-> [path \in PathKeys |->
                     IF path = "/v2/a" THEN first ELSE second],
       Definitions |-> definitions] :
        namespace \in Namespaces,
        first \in Methods({<<"N", "_", "A">>}),
        second \in Methods({<<"A">>, <<"B">>}),
        definitions \in DefinitionMaps }

\* no description loaded
NoSchema ==
    [Namespace |-> << >>, Paths |-> << >>, Definitions |-> NilDefinitions]

Loaded(schema) ==
    [input |-> schema, schema |-> schema, runs |-> 0, panicked |-> FALSE]

\* a test that does not look at $ref
NeedsDefinition_anyRef(param) == param.In = "body" /\ param.Name = "body"

\* param.In == "body" && param.Name == "body" && param.Schema.Ref == ""
NeedsDefinition(param) ==
    param.In = "body" /\ param.Name = "body" /\ param.Schema.Ref = << >>

\* "Api" + strings.TrimPrefix(verb.OperationId, Namespace + "_") + "Request"
ObjectName(namespace, operationId) ==
    <<"Api">> \o TrimPrefix(operationId, namespace \o <<"_">>)
        \o <<"Request">>

\* the ObjectDefinition built from the inline schema of a parameter
DefinitionOf(param) ==
    [Properties |->
        [key \in DOMAIN param.Schema.Properties |->
            [Type |-> param.Schema.Properties[key].Type,
             Description |-> param.Schema.Properties[key].Description]],
     Description |-> param.Schema.Description]

\* the body of the loop over verb.Parameters for one index; st is the
\* schema and whether the function has panicked.  The $ref is written
\* into the parameter, then the definition is stored: an assignment to
\* an entry of a nil map panics.
VisitParameter(st, path, idx) ==
    LET verb == st.schema.Paths[path]["put"]
        param == verb.Parameters[idx]
        objectName == ObjectName(st.schema.Namespace, verb.OperationId)
        withRef ==
            [st.schema EXCEPT
                !.Paths[path]["put"].Parameters[idx].Schema.Ref =
                    <<"#/definitions/">> \o objectName]
        entries == st.schema.Definitions.entries
    IN  IF st.panicked \/ ~NeedsDefinition(param) THEN st
        ELSE IF st.schema.Definitions.isNil
        THEN [schema |-> withRef, panicked |-> TRUE]
        ELSE [schema |->
                 [withRef EXCEPT
                     !.Definitions.entries =
                         [name \in DOMAIN entries \cup {objectName} |->
                             IF name = objectName
                             THEN DefinitionOf(param)
                             ELSE entries[name]]],
              panicked |-> FALSE]

RECURSIVE VisitParameters(_, _, _)
\* for idx, param := range verb.Parameters, from idx on
VisitParameters(st, path, idx) ==
    IF idx > Len(st.schema.Paths[path]["put"].Parameters) THEN st
    ELSE VisitParameters(VisitParameter(st, path, idx), path, idx + 1)

\* if verb, ok := def["put"]; ok { ... }
VisitPath(st, path) ==
    IF "put" \in DOMAIN st.schema.Paths[path]
    THEN VisitParameters(st, path, 1)
    ELSE st

RECURSIVE VisitPaths(_, _)
\* for _, def := range s.Paths, in the order the map iteration takes
VisitPaths(st, order) ==
    IF order = << >> THEN st
    ELSE VisitPaths(VisitPath(st, Head(order)), Tail(order))

\* the orders in which a range over a map with these keys may go
Orders(keys) ==
    {order \in [1..Cardinality(keys) -> keys] :
        \A i, j \in DOMAIN order : order[i] = order[j] => i = j}

(***************************************************************************)
(* Initial state: the socket as Socket.init leaves it.                     *)
(***************************************************************************)
SocketInit ==
    /\ collationCounter = 0
    /\ collatedPromises = << >>
    /\ calls = << >>
    /\ connState = "Disconnected"
    /\ crashed = FALSE
    /\ out = NoOut
    /\ handlers = [slot \in Slots |-> "nil"]
    /\ inbound = NoneInbound

Init == SocketInit /\ gen = Loaded(NoSchema)

\* an assignment that keeps a closure already held by the property
Registered_keepFirst(slot, h) ==
    IF handlers[slot] = "nil" THEN [handlers EXCEPT ![slot] = h] ELSE handlers

\* socket.onX = h
Registered(slot, h) == [handlers EXCEPT ![slot] = h]

\* the number of properties holding a closure stays within MaxRegistered
setHandler(slot, h) ==
    /\ ~crashed
    /\ Cardinality({t \in Slots : Registered(slot, h)[t] # "nil"})
           <= MaxRegistered
    /\ handlers' = Registered(slot, h)
    /\ out' = NoOut
    /\ UNCHANGED <<collationCounter, collatedPromises, calls, connState,
                   crashed,
                   inbound, gen>>

(***************************************************************************)
(* Socket.send<T>(env:).                                                   *)
(***************************************************************************)
NewCall(T, counter) ==
    [expected |-> T, cid |-> IntToString(counter), pc |-> "allocated",
     snapshot |-> << >>, result |-> Pending]

\* the dictionary with dict[cid] = promise
Inserted(dict, cid, promise) ==
    [k \in DOMAIN dict \cup {cid} |-> IF k = cid THEN promise ELSE dict[k]]

\* One caller, no other task inside send: counter, promise, env.cid, the
\* dictionary entry, serializedData(), socketAdapter.send, then the
\* suspension on promise.futureResult.  The call to socketAdapter.send is
\* not marked `try` and returns nothing: whatever the adapter does with
\* the data, send goes on to await the promise.
request(op) ==
    /\ ~crashed
    /\ collationCounter' = wrappingIncrementThenLoad(collationCounter)
    /\ LET call == NewCall(ResponseType(op), collationCounter')
       IN  /\ calls' = Append(calls, [call EXCEPT !.pc = "waiting"])
           /\ collatedPromises' =
                  Inserted(collatedPromises, call.cid, Len(calls) + 1)
           /\ out' = Sent(call.cid)
    /\ UNCHANGED <<connState, crashed, handlers,
                   inbound, gen>>

send(op) ==
    /\ Len(calls) < MaxCalls
    /\ request(op)

\* The same call when `try env.serializedData()` throws: the counter is
\* taken and the promise is in the dictionary by then (lines 135-138); the
\* error leaves send, nothing is handed to the adapter, the promise is
\* never completed.
send_throws(op) ==
    /\ ~crashed
    /\ Len(calls) < MaxCalls
    /\ collationCounter' = wrappingIncrementThenLoad(collationCounter)
    /\ LET call == NewCall(ResponseType(op), collationCounter')
       IN  /\ calls' = Append(calls, [call EXCEPT !.pc = "threw"])
           /\ collatedPromises' =
                  Inserted(collatedPromises, call.cid, Len(calls) + 1)
    /\ out' = NoOut
    /\ UNCHANGED <<connState, crashed, handlers,
                   inbound, gen>>

\* sendMatchData(matchId:opCode:data:presences:), both overloads: the
\* envelope is built without a cid and handed to the adapter; nothing is
\* awaited.  (String.data(using: .utf8) does not return nil.)
MatchDataOverloads == {"String", "Data"}

sendMatchData_collated(overload) ==
    /\ Len(calls) < MaxCalls
    /\ request("sendPartyData")

sendMatchData(overload) ==
    /\ ~crashed
    /\ out' = Sent(EmptyCid)
    /\ UNCHANGED <<collationCounter, collatedPromises, calls, connState,
                   crashed, handlers,
                   inbound, gen>>

\* sendPartyData(partyId:opCode:data:): the Data overload goes through
\* send<Google_Protobuf_Empty>; the String overload converts the string,
\* fills the envelope and returns: it calls neither send nor the adapter.
PartyDataOverloads == {"Data", "String"}

sendPartyData(overload) ==
    \/ /\ overload = "Data"
       /\ send("sendPartyData")
    \/ /\ overload = "String"
       /\ ~crashed
       /\ out' = NoOut
       /\ UNCHANGED <<collationCounter, collatedPromises, calls, connState,
                      crashed, handlers, inbound, gen>>

\* The same code in the steps other tasks can interleave with.
\* let counter = String(collationCounter.wrappingIncrementThenLoad(...));
\* makePromise(of: T.self); env.cid = String(counter)
send_allocate(op) ==
    /\ ~crashed
    /\ Len(calls) < MaxTasks
    /\ collationCounter' = wrappingIncrementThenLoad(collationCounter)
    /\ calls' = Append(calls, NewCall(ResponseType(op), collationCounter'))
    /\ out' = NoOut
    /\ UNCHANGED <<collatedPromises, connState, crashed, handlers,
                   inbound, gen>>

\* self.collatedPromises[counter] = promise, first half: the dictionary is
\* an unsynchronised property, the assignment reads it ...
send_store_read(i) ==
    /\ ~crashed
    /\ calls[i].pc = "allocated"
    /\ calls' = [calls EXCEPT ![i].pc = "storing",
                              ![i].snapshot = collatedPromises]
    /\ out' = NoOut
    /\ UNCHANGED <<collationCounter, collatedPromises, connState, crashed,
                   handlers,
                   inbound, gen>>

\* ... and writes it back; then env.serializedData(), socketAdapter.send and
\* the suspension on promise.futureResult.  When another task changed the
\* dictionary in between, the accesses race: the write may keep the other
\* entry, lose it, or trap.
send_store_write(i) ==
    /\ ~crashed
    /\ calls[i].pc = "storing"
    /\ calls' = [calls EXCEPT ![i].pc = "waiting", ![i].snapshot = << >>]
    /\ out' = Sent(calls[i].cid)
    /\ \/ /\ collatedPromises' = Inserted(collatedPromises, calls[i].cid, i)
          /\ crashed' = FALSE
       \/ /\ calls[i].snapshot # collatedPromises
          /\ collatedPromises' = Inserted(calls[i].snapshot, calls[i].cid, i)
          /\ crashed' = FALSE
       \/ /\ calls[i].snapshot # collatedPromises
          /\ collatedPromises' = collatedPromises
          /\ crashed' = TRUE
    /\ UNCHANGED <<collationCounter, connState, handlers,
                   inbound, gen>>

(***************************************************************************)
(* Socket.onReceivedData(data:).  A frame is the decoded envelope, or      *)
(* Malformed when Nakama_Realtime_Envelope(serializedData:) throws.        *)
(***************************************************************************)
Malformed == [cid |-> << >>, kind |-> "malformed", body |-> "none"]

\* the ids a server may answer with: those of the requests, and a foreign one
ResponseCids(n) == {<<"x">>} \cup {IntToString(k) : k \in 1..n}

\* frames carrying a collation id
CollatedFrames == [cid : ResponseCids(MaxCalls), kind : MessageKinds, body : Bodies]

\* frames without one
UncollatedFrames == [cid : {EmptyCid}, kind : MessageKinds, body : Bodies]

Frames == CollatedFrames \cup UncollatedFrames \cup {Malformed}

\* the handler is given an empty message instead of the decoded one
PushArgument_blank(f) == <<"none">>

\* what the push switch passes to the handler: the decoded payload, for
\* .error inside NakamaRealtimeError(error:), for .party through toParty()
PushArgument(f) ==
    CASE f.kind = "error" -> <<"NakamaRealtimeError", f.body>>
      [] f.kind = "party" -> <<"Party", f.body>>
      [] OTHER -> <<f.body>>

\* a push whose handler property is empty goes to onError instead
Uncollated_fallbackToError(f) ==
    IF f.kind \in PushKinds
    THEN IF handlers[PushHandler(f.kind)] = "nil"
         THEN Invoked("onError", PushArgument(f))
         ELSE Invoked(PushHandler(f.kind), PushArgument(f))
    ELSE Logged("Unrecognised incoming uncollated message")

\* the branch for response.cid.isEmpty
Uncollated(f) ==
    IF f.kind \in PushKinds
    THEN Invoked(PushHandler(f.kind), PushArgument(f))
    ELSE Logged("Unrecognised incoming uncollated message")

\* an error response that is passed to the global error handler as well
CollatedError_toHook(T, f, result) ==
    [result |-> IF CastSucceeds(T, "Any") \/ CastSucceeds(T, "empty")
                THEN Complete(result, RemoteError(f.body))
                ELSE result,
     trap |-> FALSE,
     out |-> Invoked("onError", <<"NakamaRealtimeError", f.body>>)]

\* case .error of the switch on response.message: the promise is failed
\* when it casts to EventLoopPromise<Any> or EventLoopPromise<Empty>
CollatedError(T, f, result) ==
    [result |-> IF CastSucceeds(T, "Any") \/ CastSucceeds(T, "empty")
                THEN Complete(result, RemoteError(f.body))
                ELSE result,
     trap |-> FALSE, out |-> NoOut]

\* a switch that also hands a response to the push handler of its kind
Collated_alsoPush(T, f, result) ==
    CASE f.kind = "error" -> CollatedError(T, f, result)
      [] f.kind \in ForceCastKinds ->
            IF CastSucceeds(T, f.kind)
            THEN [result |-> Complete(result, Succeeded(f.kind, f.body)),
                  trap |-> FALSE,
                  out |-> IF f.kind \in PushKinds
                          THEN Invoked(PushHandler(f.kind), PushArgument(f))
                          ELSE NoOut]
            ELSE [result |-> result, trap |-> TRUE, out |-> NoOut]
      [] OTHER ->
            [result |-> IF CastSucceeds(T, "empty")
                        THEN Complete(result, Succeeded("empty", "none"))
                        ELSE result,
             trap |-> FALSE,
             out |-> Logged("Unrecognised incoming collated message")]

\* the switch on response.message for a promise made by send<T>:
\* the promise's new result, whether a forced cast trapped, the log line
Collated(T, f, result) ==
    CASE f.kind = "error" -> CollatedError(T, f, result)
      [] f.kind \in ForceCastKinds ->
            IF CastSucceeds(T, f.kind)
            THEN [result |-> Complete(result, Succeeded(f.kind, f.body)),
                  trap |-> FALSE, out |-> NoOut]
            ELSE [result |-> result, trap |-> TRUE, out |-> NoOut]
      [] OTHER ->
            [result |-> IF CastSucceeds(T, "empty")
                        THEN Complete(result, Succeeded("empty", "none"))
                        ELSE result,
             trap |-> FALSE,
             out |-> Logged("Unrecognised incoming collated message")]

\* a lookup that ignores the key and takes whatever entry there is
Lookup_anyEntry(dict, cid) ==
    IF DOMAIN dict = {} THEN 0 ELSE dict[CHOOSE k \in DOMAIN dict : TRUE]

\* self.collatedPromises[response.cid]; 0 stands for nil
Lookup(dict, cid) == IF cid \in DOMAIN dict THEN dict[cid] ELSE 0

\* a catch block that only logs
DecodeFailed_logOnly == Logged("Failed to deserialise message")

\* the catch block: the frame does not decode
DecodeFailed ==
    [Invoked("onError", <<"decodeError">>)
        EXCEPT !.log = "Failed to deserialise message"]

\* an unmatched id reported through the error hook as well
NoMatchingPromise_toErrorHook(f) ==
    [Invoked("onError", <<f.body>>)
        EXCEPT !.log = "No matching promise for incoming collation ID"]

\* the else branch of `if let collatedPromise`
NoMatchingPromise(f) ==
    Logged("No matching promise for incoming collation ID")

\* a response that resolves every promise still waiting, not only its own
Received_broadcast(f) ==
    LET same == [collatedPromises |-> collatedPromises, calls |-> calls,
                 crashed |-> FALSE, out |-> NoOut]
    IN  IF f = Malformed THEN [same EXCEPT !.out = DecodeFailed]
        ELSE IF f.cid = EmptyCid THEN [same EXCEPT !.out = Uncollated(f)]
        ELSE IF Lookup(collatedPromises, f.cid) # 0
        THEN LET p == Lookup(collatedPromises, f.cid)
                 r == Collated(calls[p].expected, f, calls[p].result)
             IN  [same EXCEPT !.calls =
                                 [i \in DOMAIN calls |->
                                     [calls[i] EXCEPT
                                         !.result = Complete(@, r.result)]],
                              !.crashed = r.trap,
                              !.out = r.out]
        ELSE [same EXCEPT !.out = NoMatchingPromise(f)]

\* What onReceivedData(f) makes of the current state.
Received(f) ==
    LET same == [collatedPromises |-> collatedPromises, calls |-> calls,
                 crashed |-> FALSE, out |-> NoOut]
    IN  IF f = Malformed THEN [same EXCEPT !.out = DecodeFailed]
        ELSE IF f.cid = EmptyCid THEN [same EXCEPT !.out = Uncollated(f)]
        ELSE IF Lookup(collatedPromises, f.cid) # 0
        THEN LET p == Lookup(collatedPromises, f.cid)
                 r == Collated(calls[p].expected, f, calls[p].result)
             IN  [same EXCEPT !.calls[p].result = r.result,
                              !.crashed = r.trap,
                              !.out = r.out]
        ELSE [same EXCEPT !.out = NoMatchingPromise(f)]

\* the transport delivers frames one at a time while it is connected
CanReceive == ~crashed /\ connState = "Connected"

\* a delivery path that waits until no caller is suspended in send
onReceivedData_afterCallers(f) ==
    /\ CanReceive
    /\ \A i \in DOMAIN calls :
          ~(calls[i].pc = "waiting" /\ calls[i].result.state = "pending")
    /\ LET after == Received(f)
       IN  /\ collatedPromises' = after.collatedPromises
           /\ calls' = after.calls
           /\ crashed' = after.crashed
           /\ out' = after.out
    /\ UNCHANGED <<collationCounter, connState, handlers,
                   inbound, gen>>

onReceivedData(f) ==
    /\ CanReceive
    /\ LET after == Received(f)
       IN  /\ collatedPromises' = after.collatedPromises
           /\ calls' = after.calls
           /\ crashed' = after.crashed
           /\ out' = after.out
    /\ UNCHANGED <<collationCounter, connState, handlers,
                   inbound, gen>>

\* the adapter reads one more frame from the connection
adapterReads(f) ==
    /\ CanReceive
    /\ inbound.arrived < MaxArrivals
    /\ inbound' = [inbound EXCEPT
                      !.queue = Append(@, [frame |-> f,
                                           n |-> inbound.arrived + 1]),
                      !.arrived = @ + 1]
    /\ out' = NoOut
    /\ UNCHANGED <<collationCounter, collatedPromises, calls, connState,
                   crashed, handlers, gen>>

\* a callback that takes any waiting frame, not the oldest
adapterOnReceiveData_unordered ==
    /\ CanReceive
    /\ \E k \in DOMAIN inbound.queue :
          LET next == inbound.queue[k]
              after == Received(next.frame)
          IN  /\ collatedPromises' = after.collatedPromises
              /\ calls' = after.calls
              /\ crashed' = after.crashed
              /\ out' = after.out
              /\ inbound' = [inbound EXCEPT
                                !.queue = SubSeq(@, 1, k - 1)
                                             \o SubSeq(@, k + 1, Len(@)),
                                !.handled = next.n]
    /\ UNCHANGED <<collationCounter, connState, handlers, gen>>

\* socketAdapter.onReceiveData = { data in self.onReceivedData(data: data) }:
\* the adapter hands over the oldest frame it holds and the closure runs
\* onReceivedData on it to the end before it returns
adapterOnReceiveData ==
    /\ CanReceive
    /\ inbound.queue # << >>
    /\ LET next == Head(inbound.queue)
           after == Received(next.frame)
       IN  /\ collatedPromises' = after.collatedPromises
           /\ calls' = after.calls
           /\ crashed' = after.crashed
           /\ out' = after.out
           /\ inbound' = [inbound EXCEPT !.queue = Tail(@),
                                         !.handled = next.n]
    /\ UNCHANGED <<collationCounter, connState, handlers, gen>>

(***************************************************************************)
(* Lifecycle: connect / disconnect and the adapter callbacks wired by      *)
(* Socket.init.  The adapter itself is outside this file; its connection   *)
(* state follows the design document.                                      *)
(***************************************************************************)
connect ==
    /\ ~crashed
    /\ connState = "Disconnected"
    /\ connState' = "Connecting"
    /\ out' = NoOut
    /\ UNCHANGED <<collationCounter, collatedPromises, calls, crashed,
                   handlers,
                   inbound, gen>>

\* an open callback that does not call the handler
adapterOnConnect_silent ==
    /\ ~crashed
    /\ connState = "Connecting"
    /\ connState' = "Connected"
    /\ out' = NoOut
    /\ UNCHANGED <<collationCounter, collatedPromises, calls, crashed,
                   handlers, inbound, gen>>

\* socketAdapter.onConnect = { self.onConnect?() }
adapterOnConnect ==
    /\ ~crashed
    /\ connState = "Connecting"
    /\ connState' = "Connected"
    /\ out' = Invoked("onConnect", << >>)
    /\ UNCHANGED <<collationCounter, collatedPromises, calls, crashed,
                   handlers,
                   inbound, gen>>

\* a close callback that also asks the adapter to connect again
adapterOnDisconnect_reconnects ==
    /\ ~crashed
    /\ connState # "Disconnected"
    /\ connState' = "Connecting"
    /\ out' = Invoked("onDisconnect", << >>)
    /\ UNCHANGED <<collationCounter, collatedPromises, calls, crashed,
                   handlers,
                   inbound, gen>>

\* socketAdapter.onDisconnect = { self.onDisconnect?() }
adapterOnDisconnect ==
    /\ ~crashed
    /\ connState # "Disconnected"
    /\ connState' = "Disconnected"
    /\ out' = Invoked("onDisconnect", << >>)
    /\ UNCHANGED <<collationCounter, collatedPromises, calls, crashed,
                   handlers,
                   inbound, gen>>

\* socketAdapter.onError = { error in self.onError?(error) }
adapterOnError ==
    /\ ~crashed
    /\ connState # "Disconnected"
    /\ connState' = "Disconnected"
    /\ out' = Invoked("onError", <<"transportError">>)
    /\ UNCHANGED <<collationCounter, collatedPromises, calls, crashed,
                   handlers,
                   inbound, gen>>

\* self.socketAdapter.disconnect(): the adapter closes the transport and
\* reports it through its onDisconnect callback
disconnect ==
    /\ connState = "Connected"
    /\ adapterOnDisconnect

(***************************************************************************)
(* Spec: one caller issuing requests one after the other, the whole        *)
(* catalogue of operations and of inbound frames, the connection           *)
(* lifecycle.                                                              *)
(***************************************************************************)
Next ==
    \/ \E op \in RequestOps : send(op)
    \/ \E f \in Frames : onReceivedData(f)
    \/ connect
    \/ adapterOnConnect
    \/ adapterOnDisconnect
    \/ adapterOnError
    \/ disconnect
    \/ \E overload \in MatchDataOverloads : sendMatchData(overload)
    \/ \E overload \in PartyDataOverloads : sendPartyData(overload)

Spec == Init /\ [][Next]_vars

(***************************************************************************)
(* ConcurrentSpec: MaxTasks tasks inside Socket.send at the same time,     *)
(* interleaved with the delivery of response frames.                       *)
(***************************************************************************)
ConcurrentOps == {"joinMatch", "rpc", "leaveChat"}

ConcurrentFrames ==
    [cid : ResponseCids(MaxTasks), kind : {"match", "rpc", "error", "none"},
     body : Bodies]

NextConcurrent ==
    \/ \E op \in ConcurrentOps : send_allocate(op)
    \/ \E i \in DOMAIN calls : send_store_read(i)
    \/ \E i \in DOMAIN calls : send_store_write(i)
    \/ \E f \in ConcurrentFrames : onReceivedData(f)
    \/ \E overload \in MatchDataOverloads : sendMatchData(overload)
    \/ connect
    \/ adapterOnConnect

ConcurrentSpec == Init /\ [][NextConcurrent]_vars

(***************************************************************************)
(* The application assigns and clears handler properties while pushes,     *)
(* undecodable frames and connection events arrive and a request waits.    *)
(***************************************************************************)
HandlerOps == {"rpc"}

HandlerFrames == UncollatedFrames \cup {Malformed}

NextHandler ==
    \/ \E slot \in Slots, h \in HandlerValues : setHandler(slot, h)
    \/ \E op \in HandlerOps : send(op)
    \/ \E f \in HandlerFrames : onReceivedData(f)
    \/ connect
    \/ adapterOnConnect
    \/ adapterOnDisconnect
    \/ adapterOnError
    \/ disconnect

HandlerSpec == Init /\ [][NextHandler]_vars

(***************************************************************************)
(* Frames queue up in the adapter and are handed to the socket one by one  *)
(* while a request waits and onMatchData holds a closure or not.           *)
(***************************************************************************)
OrderOps == {"leaveChat"}

OrderSlots == {"onMatchData"}

OrderFrames ==
    [cid : {EmptyCid}, kind : {"matchData"}, body : Bodies]
        \cup [cid : ResponseCids(MaxCalls), kind : {"error", "none"},
              body : {"b1"}]

NextOrder ==
    \/ \E slot \in OrderSlots, h \in HandlerValues : setHandler(slot, h)
    \/ \E op \in OrderOps : send(op)
    \/ \E f \in OrderFrames : adapterReads(f)
    \/ adapterOnReceiveData
    \/ connect
    \/ adapterOnConnect

OrderSpec == Init /\ [][NextOrder]_vars

(***************************************************************************)
(* Requests whose envelope may fail to encode, and the responses a server  *)
(* may send to them.                                                       *)
(***************************************************************************)
EncodeFrames ==
    [cid : ResponseCids(MaxCalls), kind : {"rpc", "error", "none"},
     body : Bodies]

NextEncode ==
    \/ \E op \in RequestOps : send(op)
    \/ \E op \in RequestOps : send_throws(op)
    \/ \E f \in EncodeFrames : onReceivedData(f)
    \/ connect
    \/ adapterOnConnect
    \/ adapterOnDisconnect

EncodeSpec == Init /\ [][NextEncode]_vars

(***************************************************************************)
(* One caller issues requests that are never answered until the counter    *)
(* has gone through all its values and comes back to the first id.         *)
(***************************************************************************)
WrapOps == {"rpc"}

\* one request more than the counter has values
WrapCalls == 2^CounterBits + 1

NextWrap == \E op \in WrapOps : Len(calls) < WrapCalls /\ request(op)

WrapSpec == Init /\ [][NextWrap]_vars

(***************************************************************************)
(* The generator is given an API description and applies                   *)
(* generateBodyDefinitionFromSchema to it, then once more.                 *)
(***************************************************************************)
\* main, after json.Unmarshal and schema.Namespace = namespace
GeneratorInit == SocketInit /\ gen \in {Loaded(schema) : schema \in Schemas}

generateBodyDefinitionFromSchema ==
    /\ gen.runs < MaxRuns
    /\ ~gen.panicked
    /\ \E order \in Orders(DOMAIN gen.schema.Paths) :
          LET after == VisitPaths([schema |-> gen.schema, panicked |-> FALSE],
                                  order)
          IN  gen' = [gen EXCEPT !.schema = after.schema,
                                 !.panicked = after.panicked,
                                 !.runs = @ + 1]
    /\ UNCHANGED <<collationCounter, collatedPromises, calls, connState,
                   crashed, out, handlers, inbound>>

NextGenerator == generateBodyDefinitionFromSchema

GeneratorSpec == GeneratorInit /\ [][NextGenerator]_vars

(***************************************************************************)
(* Properties.                                                             *)
(***************************************************************************)
\* a call whose promise is registered and not yet completed
IsPending(i) == calls[i].pc = "waiting" /\ calls[i].result.state = "pending"

\* C9: a response frame whose correlation id is absent from the pending map
\* is only logged: it completes no promise, invokes no handler, does not
\* trap and leaves the pending map unchanged.
C9_OrphanOnlyLogged ==
    \A f \in CollatedFrames :
        (CanReceive /\ f.cid \notin DOMAIN collatedPromises)
        => LET after == Received(f)
           IN  /\ after.calls = calls
               /\ after.collatedPromises = collatedPromises
               /\ after.crashed = FALSE
               /\ after.out.invoked = "none"
               /\ after.out.log = "No matching promise for incoming collation ID"

\* an orphan response has been processed while a request was in flight
C9_Witness ==
    /\ out.log = "No matching promise for incoming collation ID"
    /\ \E i \in DOMAIN calls : IsPending(i)

\* the completion a response frame f stands for, for a promise of type T
Completion(T, f) ==
    IF f.kind = "error" THEN RemoteError(f.body)
    ELSE IF T = "empty" THEN Succeeded("empty", "none")
    ELSE Succeeded(f.kind, f.body)

\* C1: under every interleaving of concurrent send calls and inbound
\* frames, a frame changes the completion of a call only if its correlation
\* id is the id assigned to that call, and the completion is then the
\* payload of that frame.
C1_CompletionMatchesId ==
    \A f \in ConcurrentFrames :
        CanReceive =>
            LET after == Received(f)
            IN  \A i \in DOMAIN calls :
                    after.calls[i].result # calls[i].result
                    => /\ f.cid = calls[i].cid
                       /\ calls[i].result = Pending
                       /\ after.calls[i].result = Completion(calls[i].expected, f)

\* two requests sent back-to-back have each received their own payload
C1_Witness ==
    /\ Len(calls) = 2
    /\ calls[1].cid # calls[2].cid
    /\ calls[1].result = Succeeded("match", "b1")
    /\ calls[2].result = Succeeded("match", "b2")

\* C10: the ids allocated to send calls, concurrent ones included, are
\* pairwise distinct, and every entry of the pending map holds the promise
\* of the call that was given that id.
C10_IdsDistinct ==
    /\ \A i, j \in DOMAIN calls : i # j => calls[i].cid # calls[j].cid
    /\ \A cid \in DOMAIN collatedPromises :
           calls[collatedPromises[cid]].cid = cid

\* two tasks are inside send at the same time, both with an id allocated
\* and neither yet suspended
C10_Witness ==
    /\ Len(calls) = 2
    /\ calls[1].pc \in {"allocated", "storing"}
    /\ calls[2].pc \in {"allocated", "storing"}

(***************************************************************************)
(* Statements of the design document that the code does not meet.          *)
(***************************************************************************)
ConnectionClosed ==
    [state |-> "failed", kind |-> "ConnectionClosed", body |-> "none"]

\* the step in which the transport reports close or error
DisconnectStep == connState # "Disconnected" /\ connState' = "Disconnected"

\* C2: when the transport closes or errors, every pending request is failed
\* with ConnectionClosed and the pending map is empty afterwards.
C2_DisconnectFailsAllPending ==
    [][DisconnectStep
       => /\ \A i \in DOMAIN calls :
                 IsPending(i) => calls'[i].result = ConnectionClosed
          /\ DOMAIN collatedPromises' = {}
      ]_vars

\* C3: no caller is left waiting: once the transport has delivered a frame
\* carrying the request's correlation id, or has reported close or error,
\* the request is no longer pending.
C3_NoCallerLeftWaiting ==
    [][\A i \in DOMAIN calls :
          (/\ IsPending(i)
           /\ \/ DisconnectStep
              \/ \E f \in CollatedFrames :
                     f.cid = calls[i].cid /\ onReceivedData(f))
          => calls'[i].result.state # "pending"
      ]_vars

\* C4: an error response with the id of a pending request fails that
\* request with RemoteError(code, message), whatever the request expects.
C4_ErrorResponseFailsRequest ==
    [][\A i \in DOMAIN calls : \A f \in CollatedFrames :
          (/\ IsPending(i)
           /\ f.cid = calls[i].cid
           /\ f.kind = "error"
           /\ onReceivedData(f))
          => calls'[i].result = RemoteError(f.body)
      ]_vars

\* C5: a response with the id of a pending request whose non-error payload
\* is of another kind than the request expects (and the request does not
\* expect "no value") fails the request with ProtocolMismatchError, and
\* the process does not trap.
C5_MismatchIsProtocolError ==
    [][\A i \in DOMAIN calls : \A f \in CollatedFrames :
          (/\ IsPending(i)
           /\ f.cid = calls[i].cid
           /\ f.kind # "error"
           /\ f.kind # calls[i].expected
           /\ calls[i].expected # "empty"
           /\ onReceivedData(f))
          => /\ calls'[i].result.state = "failed"
             /\ calls'[i].result.kind = "ProtocolMismatchError"
             /\ crashed' = FALSE
      ]_vars

\* C6: for every request operation, a response with the request's id whose
\* payload kind is the kind the request expects completes the caller with
\* the decoded value of that payload.
C6_MatchingKindCompletes ==
    [][\A i \in DOMAIN calls : \A f \in CollatedFrames :
          (/\ IsPending(i)
           /\ f.cid = calls[i].cid
           /\ f.kind = calls[i].expected
           /\ onReceivedData(f))
          => calls'[i].result = Succeeded(f.kind, f.body)
      ]_vars

\* C7: a pending request that expects "no value" is completed with the
\* unit value by a response with its id carrying any non-error payload.
C7_NoValueAcceptsAnyPayload ==
    [][\A i \in DOMAIN calls : \A f \in CollatedFrames :
          (/\ IsPending(i)
           /\ f.cid = calls[i].cid
           /\ calls[i].expected = "empty"
           /\ f.kind # "error"
           /\ onReceivedData(f))
          => /\ calls'[i].result = Succeeded("empty", "none")
             /\ crashed' = FALSE
      ]_vars

\* C8: once the response for an id has been resolved, the entry is gone:
\* the pending map holds only the promises of requests still in flight.
C8_ResolvedEntryRemoved ==
    \A i \in DOMAIN calls :
        calls[i].result.state # "pending"
        => \A cid \in DOMAIN collatedPromises : collatedPromises[cid] # i

(***************************************************************************)
(* Send failures and the order of disconnect handling.                     *)
(***************************************************************************)
TransportError == [state |-> "failed", kind |-> "TransportError", body |-> "none"]

\* a send call has just registered its promise
RequestRegistered ==
    /\ Len(calls') = Len(calls) + 1
    /\ calls'[Len(calls')].pc = "waiting"

\* C11: a request sent while the transport is not connected is failed at
\* once with TransportError instead of being left waiting, and no other
\* request changes.
C11_SendFailureFailsRequest ==
    [][(connState # "Connected" /\ RequestRegistered)
          => /\ calls'[Len(calls')].result = TransportError
             /\ \A i \in DOMAIN calls : calls'[i] = calls[i]
      ]_vars

\* a handler closure of the application ran for a close or a transport error
DisconnectHandlerRan ==
    /\ out.handler # "nil"
    /\ \/ out.invoked = "onDisconnect"
       \/ out.invoked = "onError" /\ out.arg = <<"transportError">>

\* C12: when the application's onDisconnect / onError handler runs for a
\* transport close or error, no request registered before it is pending.
C12_PendingFailedBeforeHandler ==
    DisconnectHandlerRan => \A i \in DOMAIN calls : ~IsPending(i)

(***************************************************************************)
(* One-way sends.                                                          *)
(***************************************************************************)
\* C13: sendMatchData, in both overloads, hands exactly one envelope to the
\* transport, and that envelope has no correlation id; it allocates no id,
\* registers no promise and suspends no caller.
C13_NotifyFireAndForget ==
    [][(\E overload \in MatchDataOverloads : sendMatchData(overload))
          => /\ out'.sent = <<EmptyCid>>
             /\ collationCounter' = collationCounter
             /\ collatedPromises' = collatedPromises
             /\ calls' = calls
      ]_vars

\* match data has just been sent while a request is waiting for its response
C13_Witness ==
    /\ out.sent = <<EmptyCid>>
    /\ \E i \in DOMAIN calls : IsPending(i)

(***************************************************************************)
(* Pushes and handler properties.                                          *)
(***************************************************************************)
\* the handler property a frame without cid is dispatched through
HandlerOf(f) == IF f.kind \in PushKinds THEN PushHandler(f.kind) ELSE "none"

\* no closure would run for the frame
Unhandled(f) == HandlerOf(f) = "none" \/ handlers[HandlerOf(f)] = "nil"

\* C14: a frame without correlation id whose kind has no handler
\* registered runs no closure, completes no request and leaves the pending
\* map, the handler properties and the process untouched, so the frames
\* that follow are processed as they would have been.
C14_UnhandledPushDropped ==
    \A f \in UncollatedFrames :
        (CanReceive /\ Unhandled(f))
        => LET after == Received(f)
           IN  /\ after.out.handler = "nil"
               /\ after.calls = calls
               /\ after.collatedPromises = collatedPromises
               /\ ~after.crashed

\* a push has just been dropped while another kind has a handler and a
\* request is waiting
C14_Witness ==
    /\ out.invoked \in Slots \ {"onConnect", "onDisconnect", "onError"}
    /\ out.handler = "nil"
    /\ \E slot \in Slots : handlers[slot] # "nil"
    /\ \E i \in DOMAIN calls : IsPending(i)

\* C15: a frame without correlation id whose kind has a handler registered
\* runs that closure, once, with the decoded payload of the frame; it runs
\* no other closure, completes no request and leaves the pending map
\* untouched.
C15_HandledPushInvokesHandler ==
    \A f \in UncollatedFrames :
        (CanReceive /\ ~Unhandled(f))
        => LET after == Received(f)
           IN  /\ after.out.invoked = HandlerOf(f)
               /\ after.out.handler = handlers[HandlerOf(f)]
               /\ Len(after.out.arg) > 0
               /\ after.out.arg[Len(after.out.arg)] = f.body
               /\ after.calls = calls
               /\ after.collatedPromises = collatedPromises
               /\ ~after.crashed

\* the closure that replaced an earlier one on onMatchData has just been
\* run with the payload of a match-data push while a request is waiting
C15_Witness ==
    /\ out.invoked = "onMatchData"
    /\ out.handler = "h2"
    /\ out.arg = <<"b2">>
    /\ \E i \in DOMAIN calls : IsPending(i)

(***************************************************************************)
(* Frames that do not decode.                                              *)
(***************************************************************************)
\* C16: a frame that fails to decode is logged and reported through
\* onError; it completes and removes no pending request, does not stop the
\* process, and every frame that may follow has the effect it would have
\* had if the bad frame had not arrived.
C16_DecodeFailureNonFatal ==
    [][onReceivedData(Malformed)
          => /\ out'.log = "Failed to deserialise message"
             /\ out'.invoked = "onError"
             /\ out'.handler = handlers["onError"]
             /\ out'.arg = <<"decodeError">>
             /\ calls' = calls
             /\ collatedPromises' = collatedPromises
             /\ crashed' = FALSE
             /\ \A f \in Frames : Received(f)' = Received(f)
      ]_vars

\* the application's error handler has just been given a decode error
\* while a request is waiting
C16_Witness ==
    /\ out.log = "Failed to deserialise message"
    /\ out.handler # "nil"
    /\ connState = "Connected"
    /\ \E i \in DOMAIN calls : IsPending(i)

(***************************************************************************)
(* Isolation of responses.                                                 *)
(***************************************************************************)
\* C17: a response frame with correlation id X changes at most one
\* request; a request with another id keeps its state, still pending if it
\* was, and its entry in the pending map.
C17_OtherRequestsUntouched ==
    \A f \in ConcurrentFrames :
        CanReceive =>
            LET after == Received(f)
            IN  /\ \A i \in DOMAIN calls :
                       calls[i].cid # f.cid => after.calls[i] = calls[i]
                /\ \A i, j \in DOMAIN calls :
                       (after.calls[i] # calls[i] /\ after.calls[j] # calls[j])
                       => i = j
                /\ \A cid \in DOMAIN collatedPromises :
                       cid # f.cid
                       => /\ cid \in DOMAIN after.collatedPromises
                          /\ after.collatedPromises[cid] = collatedPromises[cid]

\* of two requests in flight one has been answered and the other still waits
C17_Witness ==
    /\ Len(calls) = 2
    /\ calls[1].result.state = "succeeded"
    /\ IsPending(2)
    /\ calls[2].cid \in DOMAIN collatedPromises

\* C18: each handler property holds one closure: assigning it replaces
\* what it held (nil empties it) and changes no other property, and an
\* event runs the closure its property holds at that moment, none if it is
\* empty.  This is so for onConnect, onDisconnect, onError and the
\* property of every push kind.
C18_LatestHandlerWins ==
    /\ \A slot \in Slots, h \in HandlerValues :
           /\ Registered(slot, h)[slot] = h
           /\ \A other \in Slots \ {slot} :
                  Registered(slot, h)[other] = handlers[other]
    /\ out.invoked # "none" => out.handler = handlers[out.invoked]
    /\ \A f \in UncollatedFrames :
           f.kind \in PushKinds
           => Received(f).out.handler = handlers[PushHandler(f.kind)]

\* onConnect holds the second closure and the open event has just run it
C18_Witness ==
    /\ out.invoked = "onConnect"
    /\ out.handler = "h2"
    /\ handlers["onConnect"] = "h2"

(***************************************************************************)
(* Reconnection.                                                           *)
(***************************************************************************)
\* C19: the connection leaves Disconnected, that is socketAdapter.connect
\* is called, only in a step in which the caller invokes connect(); the
\* callbacks for close and error never do it.
C19_NoAutomaticReconnect ==
    [][(connState # "Connecting" /\ connState' = "Connecting") => connect]_vars

\* the transport has closed under a waiting request and nothing has
\* reconnected
C19_Witness ==
    /\ connState = "Disconnected"
    /\ out.invoked \in {"onDisconnect", "onError"}
    /\ \E i \in DOMAIN calls : IsPending(i)

(***************************************************************************)
(* Wraparound of the collation counter.                                    *)
(***************************************************************************)
\* C20: no step registers a new request under the id of a request that is
\* still pending: the entry of a pending request keeps pointing at it,
\* also when the counter has wrapped.
C20_WrapKeepsPendingEntry ==
    [][\A cid \in DOMAIN collatedPromises :
          IsPending(collatedPromises[cid])
          => collatedPromises'[cid] = collatedPromises[cid]
      ]_vars

(***************************************************************************)
(* Exclusion between the accesses to the pending map.                      *)
(***************************************************************************)
\* the tasks that are in the middle of `self.collatedPromises[counter] = promise`
Storing == {i \in DOMAIN calls : calls[i].pc = "storing"}

\* C21: the accesses to the pending map exclude each other: at most one
\* send call is inside its store at a time, and no frame can be looked up
\* by onReceivedData while a store is under way.
C21_MapAccessExclusive ==
    /\ Cardinality(Storing) <= 1
    /\ Storing # {} => ~CanReceive

C23_RemoteErrorOnlyToItsCaller ==
    \A f \in ConcurrentFrames :
        (CanReceive /\ f.kind = "error")
        => LET after == Received(f)
           IN  /\ after.out.invoked = "none"
               /\ after.out.handler = "nil"
               /\ \A i \in DOMAIN calls :
                      calls[i].cid # f.cid
                      => after.calls[i].result = calls[i].result

\* of two requests in flight one has been failed by an error response and
\* the other still waits
C23_Witness ==
    /\ Len(calls) = 2
    /\ \E i, j \in DOMAIN calls :
           /\ calls[i].result.kind = "RemoteError"
           /\ IsPending(j)
    /\ out = NoOut

(***************************************************************************)
(* What a suspended caller blocks.                                         *)
(***************************************************************************)
\* C24: a caller suspended in send blocks nothing but itself: while
\* requests are pending, every frame can still be received on an open
\* connection, another task can start a send, and match data can be sent.
C24_OnlyCallerSuspended ==
    (~crashed /\ \E i \in DOMAIN calls : IsPending(i))
    => /\ connState = "Connected"
          => \A f \in ConcurrentFrames : ENABLED onReceivedData(f)
       /\ Len(calls) < MaxTasks
          => \A op \in ConcurrentOps : ENABLED send_allocate(op)
       /\ \A overload \in MatchDataOverloads : ENABLED sendMatchData(overload)

\* on an open connection one request waits for its response and another
\* task has entered send
C24_Witness ==
    /\ Len(calls) = 2
    /\ IsPending(1)
    /\ calls[2].pc = "allocated"
    /\ connState = "Connected"

(***************************************************************************)
(* Logging of dropped pushes.                                              *)
(***************************************************************************)
\* C25: a frame without correlation id whose kind has no handler
\* registered leaves a log entry, whatever its kind.
C25_UnhandledPushLogged ==
    \A f \in UncollatedFrames :
        (CanReceive /\ Unhandled(f)) => Received(f).out.log # "none"

(***************************************************************************)
(* The open event.                                                         *)
(***************************************************************************)
\* the adapter reports that the connection is open
OpenStep == connState = "Connecting" /\ connState' = "Connected"

\* C26: the step in which the connection opens makes it Connected and
\* calls through onConnect, once, running the closure the property holds;
\* no other step (close, error, frame, request, assignment) calls through
\* onConnect.
C26_ConnectHandlerOnOpenOnly ==
    [][/\ adapterOnConnect
          => /\ connState' = "Connected"
             /\ out'.invoked = "onConnect"
             /\ out'.handler = handlers["onConnect"]
       /\ out'.invoked = "onConnect" => OpenStep
      ]_vars

\* the connection has just opened and the first closure assigned to
\* onConnect has run
C26_Witness ==
    /\ connState = "Connected"
    /\ out.invoked = "onConnect"
    /\ out.handler = "h1"

(***************************************************************************)
(* Repeated responses.                                                     *)
(***************************************************************************)
\* C27: a request is completed at most once: a response frame that
\* arrives for a request already completed leaves the caller's result as
\* the first completion set it.
C27_CompletedAtMostOnce ==
    \A f \in CollatedFrames :
        CanReceive =>
            LET after == Received(f)
            IN  \A i \in DOMAIN calls :
                    calls[i].result.state # "pending"
                    => after.calls[i].result = calls[i].result

\* the request was failed by an error response, and a further response
\* with its id, of no listed kind, has been received since
C27_Witness ==
    /\ Len(calls) >= 1
    /\ calls[1].result.kind = "RemoteError"
    /\ calls[1].expected = "empty"
    /\ out.log = "Unrecognised incoming collated message"

(***************************************************************************)
(* Routing by correlation id.                                              *)
(***************************************************************************)
\* C28: a decoded frame goes to one side only, chosen by its correlation
\* id: without id it changes no request and no entry of the pending map,
\* with an id it calls through no handler property; a party payload
\* reaches onPartyReceived exactly when the frame has no id.
C28_RoutedByIdOnly ==
    \A f \in Frames \ {Malformed} :
        CanReceive =>
            LET after == Received(f)
            IN  /\ f.cid = EmptyCid
                   => /\ after.calls = calls
                      /\ after.collatedPromises = collatedPromises
                      /\ ~after.crashed
                /\ f.cid # EmptyCid => after.out.invoked = "none"
                /\ f.kind = "party"
                   => (after.out.invoked = "onPartyReceived"
                          <=> f.cid = EmptyCid)

\* a party response has completed the request and a party push that came
\* after it went to onPartyReceived
C28_Witness ==
    /\ Len(calls) >= 1
    /\ calls[1].result = Succeeded("party", "b1")
    /\ out.invoked = "onPartyReceived"
    /\ out.arg = <<"Party", "b2">>

(***************************************************************************)
(* Unsolicited errors.                                                     *)
(***************************************************************************)
\* C29: a frame without correlation id that carries the error variant
\* calls through onError, once, with that error, running the closure the
\* property holds, and changes no request and no entry of the pending map.
C29_UnsolicitedErrorToHandler ==
    \A f \in UncollatedFrames :
        (CanReceive /\ f.kind = "error")
        => LET after == Received(f)
           IN  /\ after.out.invoked = "onError"
               /\ after.out.handler = handlers["onError"]
               /\ after.out.arg = <<"NakamaRealtimeError", f.body>>
               /\ after.calls = calls
               /\ after.collatedPromises = collatedPromises
               /\ ~after.crashed

\* the closure of onError has just been given an unsolicited error while
\* a request is waiting
C29_Witness ==
    /\ out.invoked = "onError"
    /\ out.handler = "h1"
    /\ out.arg = <<"NakamaRealtimeError", "b1">>
    /\ \E i \in DOMAIN calls : IsPending(i)

(***************************************************************************)
(* The overloads of sendPartyData.                                         *)
(***************************************************************************)
\* C30: sendPartyData hands exactly one envelope to the transport, with
\* the Data overload and with the String overload alike.
C30_PartyDataOverloadsAgree ==
    [][\A overload \in PartyDataOverloads :
          sendPartyData(overload) => Len(out'.sent) = 1
      ]_vars

(***************************************************************************)
(* A send that fails before transmitting.                                  *)
(***************************************************************************)
\* a call of send has just ended with the encoding error
SendThrew ==
    /\ Len(calls') = Len(calls) + 1
    /\ calls'[Len(calls')].pc = "threw"

\* C31: a call of send that throws before it has handed anything to the
\* adapter leaves the pending map as it was before the call.
C31_FailedSendLeavesNoEntry ==
    [][SendThrew => collatedPromises' = collatedPromises]_vars

(***************************************************************************)
(* The generator: definitions synthesised for PUT bodies.                  *)
(***************************************************************************)
\* the function has run and returned
Generated == gen.runs >= 1 /\ ~gen.panicked

\* C32: once generateBodyDefinitionFromSchema has returned, every body
\* parameter named body of a PUT operation has a $ref; each $ref the
\* function made names a key of Definitions whose properties are those of
\* the inline schema of that parameter, one for one; and the operations
\* under other methods are as they were.
C32_PutBodiesGetDefinitions ==
    Generated =>
        \A path \in DOMAIN gen.schema.Paths :
            LET before == gen.input.Paths[path]
                after == gen.schema.Paths[path]
                entries == gen.schema.Definitions.entries
            IN  /\ DOMAIN after = DOMAIN before
                /\ \A method \in DOMAIN after \ {"put"} :
                       after[method] = before[method]
                /\ "put" \in DOMAIN after
                   => \A idx \in DOMAIN after["put"].Parameters :
                          LET param == after["put"].Parameters[idx]
                              old == before["put"].Parameters[idx]
                              name == Tail(param.Schema.Ref)
                          IN  /\ (param.In = "body" /\ param.Name = "body")
                                 => param.Schema.Ref # << >>
                              /\ NeedsDefinition(old)
                                 => /\ name \in DOMAIN entries
                                    /\ DOMAIN entries[name].Properties
                                          = DOMAIN old.Schema.Properties

\* a further application of generateBodyDefinitionFromSchema to a
\* description it has already been applied to
AppliedAgain == gen.runs >= 1 /\ gen'.runs = gen.runs + 1

\* C33: generateBodyDefinitionFromSchema is idempotent: applying it to a
\* description it has already been applied to leaves Paths and
\* Definitions as the first application left them, whatever order the
\* iteration over the paths takes.
C33_GenerationIdempotent ==
    [][AppliedAgain =>
          /\ gen'.schema.Paths = gen.schema.Paths
          /\ gen'.schema.Definitions = gen.schema.Definitions
          /\ ~gen'.panicked]_vars

\* the function has been applied twice to a description in which the
\* first application synthesised a definition
C33_Witness ==
    /\ gen.runs = 2
    /\ ~gen.panicked
    /\ gen.schema.Paths # gen.input.Paths
    /\ gen.schema.Definitions # gen.input.Definitions

=============================================================================
